---- MODULE Spec2Model ----
(***************************************************************************)
(* Model of timetable/main.py: the command dispatcher and cache            *)
(* orchestrator (main, get_config) and the three view flows (show_week /   *)
(* print_week_timetable, show_timetable / print_timeline, show_next).      *)
(*                                                                         *)
(* Representation.                                                         *)
(*   datetime        [ordinal, hour, minute, second]; ordinal is           *)
(*                   date.toordinal(), so ordinal 1 is a Monday.           *)
(*   datetime.time   <<hour, minute, second>>  (Activity.start / .end are  *)
(*                   time-of-day values: main.py:249 compares them with    *)
(*                   now.time()).                                          *)
(*   Optional x      <<>> for None, <<x>> for a value.                     *)
(*   (Course, Activity) pair   [title |-> course.title, act |-> activity]  *)
(*                   (the views read nothing of a course but its title).   *)
(*   f'{title} {name}'         <<title, name>>                             *)
(*   strftime('%H:%M')         <<hour, minute>>                            *)
(*   '\n'.join(list)           the list itself (<<>> is the empty string)  *)
(***************************************************************************)
EXTENDS Integers, Sequences, FiniteSets, TLC

VARIABLES
  pc,            \* where main() is: validate, get_config, get_courses, fetch,
                 \* callback, persist, done, exit (exit() called), raised (uncaught)
  arguments,     \* the docopt dictionary
  clock,         \* what datetime.now() returns during this run
  disk,          \* the cache file <config dir>/data: None, or the pickled course list
  disk0,         \* the cache file as it was when the run started
  data,          \* main's data
  config_dict,   \* main's config_dict
  courses,       \* main's courses
  course_index,  \* position of the loop "for course in courses"
  events,        \* what the run has done so far, in order
  out            \* what the dispatched view flow computed and printed

vars ==
  <<pc, arguments, clock, disk, disk0, data, config_dict, courses, course_index, events, out>>

(***************************************************************************)
(* Bounds of the model.                                                    *)
(***************************************************************************)
\* largest number of activities in a course list given to a view
MaxActs == 2
\* largest number of activities one course offers in the dispatcher runs
MaxFetch == 1
\* number of consecutive days the clock / --on date ranges over
NumDates == 8

None == <<>>

Some(x) == <<x>>

\* 2026-11-02, a Monday
FirstOrdinal == 739922

Ordinals == FirstOrdinal .. (FirstOrdinal + NumDates - 1)

Titles == <<"CS101", "MA102">>

\* (start, end) pairs of the activities on offer; start < end in each
Spans ==
  { << <<9, 0, 0>>,  <<9, 50, 0>> >>,
    << <<9, 0, 0>>,  <<10, 0, 0>> >>,
    << <<9, 30, 0>>, <<11, 0, 0>> >>,
    << <<10, 0, 0>>, <<12, 0, 0>> >>,
    << <<13, 0, 0>>, <<14, 0, 30>> >>,
    << <<22, 0, 0>>, <<23, 30, 0>> >> }

\* weekdays on which activities are on offer (Monday, Tuesday, Saturday)
OfferDays == {0, 1, 5}

\* every activity a course can offer
ActivityPool ==
  { [name |-> "Lec", day |-> d, start |-> sp[1], end |-> sp[2], place |-> "A1"] :
      d \in OfferDays, sp \in Spans }

\* the activities the remote timetable service can return in a dispatcher run:
\* Monday 09:00-10:00 and Monday 22:00-23:30
RemotePool ==
  { a \in ActivityPool : a.day = 0 /\ a.end \in {<<10, 0, 0>>, <<23, 30, 0>>} }

\* wall-clock times of day
ClockTimes ==
  { <<8, 59, 30>>, <<9, 0, 0>>, <<9, 0, 30>>, <<9, 30, 0>>, <<10, 0, 0>>, <<22, 0, 30>>,
    <<23, 59, 59>> }

\* clock times of the dispatcher runs
MainClockTimes == { <<9, 0, 0>>, <<9, 0, 30>> }

Datetimes(ordinals, times) ==
  { [ordinal |-> o, hour |-> t[1], minute |-> t[2], second |-> t[3]] :
      o \in ordinals, t \in times }

\* values of --on=<date> on the command line
OnTexts == {"2026-11-02", "2026-11-08", "tomorrow"}

RECURSIVE SubsetsUpTo(_, _)
\* the subsets of S with at most k elements
SubsetsUpTo(S, k) ==
  IF k = 0 THEN {{}}
  ELSE LET smaller == SubsetsUpTo(S, k - 1)
       IN  smaller \cup { T \cup {x} : T \in smaller, x \in S }

\* the course lists over Titles whose courses hold activity sets A1, A2
CourseList(A1, A2) ==
  <<[title |-> Titles[1], activities |-> A1], [title |-> Titles[2], activities |-> A2]>>

\* the course lists with at most k activities of the pool in all
CourseLists(pool, k) ==
  LET subs == SubsetsUpTo(pool, k)
  IN  UNION { { CourseList(A1, A2) :
                  A2 \in { B \in subs : Cardinality(A1) + Cardinality(B) <= k } } :
              A1 \in subs }

(***************************************************************************)
(* datetime arithmetic                                                     *)
(***************************************************************************)
\* date.weekday(): Monday is 0, Sunday is 6
weekday(date) == (date.ordinal + 6) % 7

\* datetime.time(): the time-of-day of a datetime
time(dt) == <<dt.hour, dt.minute, dt.second>>

\* t1 < t2 on datetime.time values
TimeLess(t1, t2) ==
  \/ t1[1] < t2[1]
  \/ t1[1] = t2[1] /\ t1[2] < t2[2]
  \/ t1[1] = t2[1] /\ t1[2] = t2[2] /\ t1[3] < t2[3]

\* seconds since midnight
Seconds(t) == t[1] * 3600 + t[2] * 60 + t[3]

\* dt1 - dt2 as a timedelta, in seconds
Minus(dt1, dt2) ==
  (dt1.ordinal - dt2.ordinal) * 86400 + Seconds(time(dt1)) - Seconds(time(dt2))

\* strftime('%H:%M')
HHMM(t) == <<t[1], t[2]>>

\* (datetime + timedelta(hours=n)).time() for a datetime at hour h, minute 0
PlusHours(h, n) == <<(h + n) % 24, 0, 0>>

(***************************************************************************)
(* Collaborators outside main.py (timetable.activities_on,                 *)
(* Activity.location_valid_for), modelled from their contracts.            *)
(***************************************************************************)
\* position of a course title in the ascending order of titles
TitleRank(title) == CHOOSE i \in 1 .. Len(Titles) : Titles[i] = title

\* the (course, activity) pairs of the activities held on weekday wd
PairsOn(courselist, wd) ==
  UNION { { [title |-> courselist[i].title, act |-> a] :
              a \in { b \in courselist[i].activities : b.day = wd } } :
          i \in DOMAIN courselist }

\* p may not come after q: earlier start, or the same start and a smaller title
Precedes(p, q) ==
  \/ TimeLess(p.act.start, q.act.start)
  \/ p.act.start = q.act.start /\ TitleRank(p.title) < TitleRank(q.title)

\* the orders activities_on may return the day's activities in: ascending
\* start, ties by ascending title, any order among what is still tied
activities_on(courselist, date) ==
  LET S == PairsOn(courselist, weekday(date))
      n == Cardinality(S)
  IN  { s \in [1 .. n -> S] :
          /\ \A i, j \in 1 .. n : i # j => s[i] # s[j]
          /\ \A i, j \in 1 .. n : i < j => ~Precedes(s[j], s[i]) }

\* activity.location_valid_for(date)
location_valid_for(activity, date) == [place |-> activity.place]

(***************************************************************************)
(* print_activity: the line printed for one activity                       *)
(***************************************************************************)
print_activity(date, title, activity) ==
  [start |-> HHMM(activity.start), end |-> HHMM(activity.end), title |-> title,
   name |-> activity.name, place |-> location_valid_for(activity, date).place]

(***************************************************************************)
(* print_timeline                                                          *)
(***************************************************************************)
\* the pixel height of a box
box_height == 25

\* mapping.get(key, []) gone wrong: a fresh list whatever the mapping holds
MappingGetFresh(mapping, key) == <<>>

\* mapping.get(key, [])
MappingGet(mapping, key) ==
  IF \E i \in DOMAIN mapping : mapping[i].key = key
  THEN mapping[CHOOSE i \in DOMAIN mapping : mapping[i].key = key].bin
  ELSE <<>>

\* mapping[key] = map_bin on an OrderedDict: a known key keeps its position,
\* a new key goes last
MappingSet(mapping, key, map_bin) ==
  IF \E i \in DOMAIN mapping : mapping[i].key = key
  THEN [i \in DOMAIN mapping |->
          IF mapping[i].key = key THEN [key |-> key, bin |-> map_bin] ELSE mapping[i]]
  ELSE Append(mapping, [key |-> key, bin |-> map_bin])

\* the text of one box
activity_text(date, pair) ==
  [title |-> pair.title, name |-> pair.act.name,
   place |-> location_valid_for(pair.act, date).place, end |-> HHMM(pair.act.end)]

\* the key of the bucket of one activity
TimelineKey(pair) == HHMM(pair.act.start)

RECURSIVE BinActivities(_, _, _, _)
\* the loop that bins the activities from index i on
BinActivities(date, activities, i, mapping) ==
  IF i > Len(activities) THEN mapping
  ELSE LET key == TimelineKey(activities[i])
           map_bin == Append(MappingGet(mapping, key), activity_text(date, activities[i]))
       IN  BinActivities(date, activities, i + 1, MappingSet(mapping, key, map_bin))

\* what print_timeline hands to draw.timeline; drawn is FALSE when it returns
\* before drawing
print_timeline(date, activities) ==
  IF Len(activities) = 0
  THEN [drawn |-> FALSE, height |-> box_height, mapping |-> <<>>]
  ELSE [drawn |-> TRUE, height |-> box_height,
        mapping |-> BinActivities(date, activities, 1, <<>>)]

(***************************************************************************)
(* print_week_timetable                                                    *)
(***************************************************************************)
\* calendar.MONDAY .. calendar.SATURDAY - 1
WeekDays == 0 .. 4

\* calendar.day_name[:5] behind the empty corner cell
HeaderRow == <<"", "Monday", "Tuesday", "Wednesday", "Thursday", "Friday">>

\* find_day_of_week with date.isoweekday() (Monday is 1) for date.weekday()
find_day_of_week_iso(date, wd) == [date EXCEPT !.ordinal = @ + (wd - (weekday(date) + 1))]

find_day_of_week(date, wd) == [date EXCEPT !.ordinal = @ + (wd - weekday(date))]

\* the five dates print_week_timetable asks activities_on about, in order
WeekDates(date) == [i \in 1 .. 5 |-> find_day_of_week(date, i - 1)]

\* itertools.chain of the five per-date lists
Chain(lists) == lists[1] \o lists[2] \o lists[3] \o lists[4] \o lists[5]

\* every way activities_on can answer the five queries
Collections(courselist, dates) ==
  { <<a, b, c, d, e>> :
      a \in activities_on(courselist, dates[1]), b \in activities_on(courselist, dates[2]),
      c \in activities_on(courselist, dates[3]), d \in activities_on(courselist, dates[4]),
      e \in activities_on(courselist, dates[5]) }

\* min(day_activities, key=start).start
EarliestStart(day_activities) ==
  LET T == { day_activities[i].act.start : i \in DOMAIN day_activities }
  IN  CHOOSE t \in T : \A u \in T : ~TimeLess(u, t)

\* max(day_activities, key=end).end
LatestEnd(day_activities) ==
  LET T == { day_activities[i].act.end : i \in DOMAIN day_activities }
  IN  CHOOSE t \in T : \A u \in T : ~TimeLess(t, u)

\* latest_time + timedelta(hours=1) raises TypeError: latest_time is a
\* datetime.time, which supports no arithmetic
RoundUpRaises(latest_time) == latest_time[2] + latest_time[3] > 0

\* f'{course.title} {activity.name}'
CellText(pair) == <<pair.title, pair.act.name>>

\* defaultdict(list): every key starts with the empty list
EmptyRendered == [key \in (0 .. 6) \X { <<h, 0, 0>> : h \in 0 .. 23 } |-> <<>>]

RECURSIVE RenderHours(_, _, _, _)
\* for hour in range(hours): append the text to the cell (day, start hour + hour)
RenderHours(rendered, pair, hour, hours) ==
  IF hour >= hours THEN rendered
  ELSE LET key == <<pair.act.day, PlusHours(pair.act.start[1], hour)>>
       IN  RenderHours([rendered EXCEPT ![key] = Append(@, CellText(pair))],
                       pair, hour + 1, hours)

RECURSIVE RenderActivitiesInclusive(_, _, _)
\* RenderActivities that also fills the cell of the hour the activity ends in
RenderActivitiesInclusive(rendered, day_activities, i) ==
  IF i > Len(day_activities) THEN rendered
  ELSE LET act == day_activities[i].act
           hours == act.end[1] - act.start[1] + 1
       IN  RenderActivitiesInclusive(RenderHours(rendered, day_activities[i], 0, hours),
                                     day_activities, i + 1)

RECURSIVE RenderActivities(_, _, _)
\* for course, activity in day_activities, from index i on
RenderActivities(rendered, day_activities, i) ==
  IF i > Len(day_activities) THEN rendered
  ELSE LET act == day_activities[i].act
           hours == act.end[1] - act.start[1]
       IN  RenderActivities(RenderHours(rendered, day_activities[i], 0, hours),
                            day_activities, i + 1)

\* the rows under the header: one for each hour in range(latest - earliest)
TableRows(rendered, earliest_time, latest_time) ==
  LET hours == latest_time[1] - earliest_time[1]
  IN  [hour \in 1 .. hours |->
         LET dt == PlusHours(earliest_time[1], hour - 1)
         IN  <<HHMM(dt)>> \o [day \in 1 .. 5 |-> rendered[<<day - 1, dt>>]]]

\* print_week_timetable on the lists activities_on returned for the five dates:
\* status is "empty" (nothing to show), "raised" (TypeError) or "drawn"
print_week_timetable(date, collected) ==
  LET dates          == WeekDates(date)
      day_activities == Chain(collected)
      base           == [dates |-> dates, day_activities |-> day_activities]
  IN  IF Len(day_activities) = 0
      THEN base @@ [status |-> "empty", table |-> <<>>]
      ELSE LET earliest_time == [EarliestStart(day_activities) EXCEPT ![2] = 0, ![3] = 0]
               latest_time   == LatestEnd(day_activities)
           IN  IF RoundUpRaises(latest_time)
               THEN base @@ [status |-> "raised", table |-> <<>>]
               ELSE LET rendered == RenderActivities(EmptyRendered, day_activities, 1)
                    IN  base @@ [status |-> "drawn",
                                 table |-> <<HeaderRow>> \o
                                           TableRows(rendered, earliest_time, latest_time)]

(***************************************************************************)
(* show_next                                                               *)
(***************************************************************************)
\* NextActivity with activity.start >= now.time()
NextActivityNotBefore(activities, now) ==
  LET later == { i \in DOMAIN activities : ~TimeLess(activities[i].act.start, time(now)) }
  IN  IF later = {} THEN None
      ELSE Some(activities[CHOOSE i \in later : \A j \in later : i <= j])

\* next((course, activity) for ... if activity.start > now.time()), None)
NextActivity(activities, now) ==
  LET later == { i \in DOMAIN activities : TimeLess(time(now), activities[i].act.start) }
  IN  IF later = {} THEN None
      ELSE Some(activities[CHOOSE i \in later : \A j \in later : i <= j])

\* now.replace(hour=act.start.hour, minute=act.start.minute)
ReplaceHourMinute(now, start) == [now EXCEPT !.hour = start[1], !.minute = start[2]]

\* what show_next prints for the given now and today's activities
show_next(now, activities, timeFlag) ==
  LET next_activity == NextActivity(activities, now)
      base == [now |-> now, activities |-> activities, next_activity |-> next_activity]
  IN  IF next_activity # None /\ timeFlag
      THEN base @@ [printed |-> "delta",
                    delta |-> Minus(ReplaceHourMinute(now, next_activity[1].act.start), now)]
      ELSE IF next_activity # None
      THEN base @@ [printed |-> "activity", delta |-> 0]
      ELSE base @@ [printed |-> "nothing", delta |-> 0]

(***************************************************************************)
(* main() and get_config()                                                 *)
(***************************************************************************)
\* the commands in the order the @command decorators registered them
COMMAND_MAP == <<"week", "show", "next">>

\* the docopt dictionaries of the three usage patterns: --on goes with show
\* and week, --timeline with show, --time with next
Arguments ==
  { a \in { [show |-> c = "show", week |-> c = "week", next |-> c = "next", on |-> o,
             drop_cache |-> d, time |-> t, verbose |-> v, timeline |-> tl] :
               c \in {"show", "week", "next"},
               o \in {None} \cup { Some(x) : x \in OnTexts },
               d \in BOOLEAN, t \in BOOLEAN, v \in BOOLEAN, tl \in BOOLEAN } :
      /\ a.on # None => ~a.next
      /\ a.timeline => a.show
      /\ a.time => a.next }

\* datetime.strptime(v, '%Y-%m-%d'): the parsed date at midnight, None for a
\* ValueError
strptime(v) ==
  CASE v = "2026-11-02" -> Some([ordinal |-> 739922, hour |-> 0, minute |-> 0, second |-> 0])
    [] v = "2026-11-08" -> Some([ordinal |-> 739928, hour |-> 0, minute |-> 0, second |-> 0])
    [] OTHER -> None

\* config.get_courses(config_dict): the configured courses, nothing fetched yet
get_courses(cfg) == [i \in DOMAIN cfg.courses |-> [title |-> cfg.courses[i], activities |-> {}]]

\* the parsed configuration file
ParsedConfig == [courses |-> Titles]

\* the callback main() dispatches to: the first command docopt set to True
Callback ==
  COMMAND_MAP[CHOOSE i \in DOMAIN COMMAND_MAP :
                /\ arguments[COMMAND_MAP[i]]
                /\ \A j \in 1 .. i - 1 : ~arguments[COMMAND_MAP[j]]]

\* date = args['--on'] or datetime.now()
DateOf(args) == IF args.on # None THEN args.on[1] ELSE clock

NoOutput == [cmd |-> "none"]

\* COMMAND_SCHEMA.validate(arguments): --on is parsed; exit(__doc__) on failure
Validate ==
  /\ pc = "validate"
  /\ IF arguments.on # None /\ strptime(arguments.on[1]) = None
     THEN /\ pc' = "exit"
          /\ events' = Append(events, <<"exit", "usage">>)
          /\ UNCHANGED arguments
     ELSE /\ pc' = "get_config"
          /\ arguments' = [arguments EXCEPT
                             !.on = IF @ = None THEN None ELSE strptime(@[1])]
          /\ UNCHANGED events
  /\ UNCHANGED <<clock, disk, disk0, data, config_dict, courses, course_index, out>>

\* get_config() and its except clause: the data file is loaded when it exists,
\* then the configuration file is parsed
GetConfig ==
  /\ pc = "get_config"
  /\ \E result \in {"no_env", "schema_error", "parsed"} :
       CASE result = "no_env" ->
              \* os.getenv returns None and pathlib.Path(None) raises TypeError
              /\ pc' = "raised"
              /\ events' = Append(events, <<"raise", "TypeError">>)
              /\ UNCHANGED <<data, config_dict>>
         [] result = "schema_error" ->
              /\ pc' = "exit"
              /\ events' = events \o (IF disk # None THEN << <<"load">> >> ELSE <<>>) \o
                           << <<"exit", IF arguments.verbose THEN "e.code"
                                        ELSE "Failed to parse config.">> >>
              /\ UNCHANGED <<data, config_dict>>
         [] result = "parsed" ->
              /\ pc' = "get_courses"
              /\ data' = disk
              /\ config_dict' = Some(ParsedConfig)
              /\ events' = events \o (IF disk # None THEN << <<"load">> >> ELSE <<>>)
  /\ UNCHANGED <<arguments, clock, disk, disk0, courses, course_index, out>>

\* GetCourses that refetches only when there is no cached list
GetCoursesIgnoringDropCache ==
  /\ pc = "get_courses"
  /\ IF data = None
     THEN /\ courses' = get_courses(config_dict[1])
          /\ pc' = IF Len(get_courses(config_dict[1])) = 0 THEN "callback" ELSE "fetch"
     ELSE /\ courses' = data[1]
          /\ pc' = "callback"
  /\ course_index' = 1
  /\ UNCHANGED <<arguments, clock, disk, disk0, data, config_dict, events, out>>

\* lines 274-279 up to the loop: the configured courses, replaced by the cached
\* list unless there is none or --drop-cache was given
GetCourses ==
  /\ pc = "get_courses"
  /\ IF data = None \/ arguments.drop_cache
     THEN /\ courses' = get_courses(config_dict[1])
          /\ pc' = IF Len(get_courses(config_dict[1])) = 0 THEN "callback" ELSE "fetch"
     ELSE /\ courses' = data[1]
          /\ pc' = "callback"
  /\ course_index' = 1
  /\ UNCHANGED <<arguments, clock, disk, disk0, data, config_dict, events, out>>

\* FetchActivities that saves what it has fetched so far when a fetch fails
FetchActivitiesSavingPartial ==
  /\ pc = "fetch"
  /\ course_index <= Len(courses)
  /\ \/ \E fetched \in SubsetsUpTo(RemotePool, MaxFetch) :
          /\ courses' = [courses EXCEPT ![course_index].activities = fetched]
          /\ events' = Append(events, <<"fetch", courses[course_index].title>>)
          /\ course_index' = course_index + 1
          /\ pc' = IF course_index = Len(courses) THEN "callback" ELSE "fetch"
          /\ UNCHANGED disk
     \/ /\ events' = events \o << <<"fetch", courses[course_index].title>>,
                                  <<"raise", "fetch failed">> >>
        /\ pc' = "raised"
        /\ disk' = Some(courses)
        /\ UNCHANGED <<courses, course_index>>
  /\ UNCHANGED <<arguments, clock, disk0, data, config_dict, out>>

\* one iteration of "for course in courses: course.fetch_activities()"; the
\* remote service answers with the course's activities or the call raises
FetchActivities ==
  /\ pc = "fetch"
  /\ course_index <= Len(courses)
  /\ \/ \E fetched \in SubsetsUpTo(RemotePool, MaxFetch) :
          /\ courses' = [courses EXCEPT ![course_index].activities = fetched]
          /\ events' = Append(events, <<"fetch", courses[course_index].title>>)
          /\ course_index' = course_index + 1
          /\ pc' = IF course_index = Len(courses) THEN "callback" ELSE "fetch"
     \/ /\ events' = events \o << <<"fetch", courses[course_index].title>>,
                                  <<"raise", "fetch failed">> >>
        /\ pc' = "raised"
        /\ UNCHANGED <<courses, course_index>>
  /\ UNCHANGED <<arguments, clock, disk, disk0, data, config_dict, out>>

\* the callback registered for 'week': show_week, all of print_week_timetable
ShowWeek ==
  /\ pc = "callback"
  /\ Callback = "week"
  /\ LET date == DateOf(arguments)
     IN  \E collected \in Collections(courses, WeekDates(date)) :
           LET result == print_week_timetable(date, collected)
           IN  /\ out' = result @@ [cmd |-> "week", date |-> date]
               /\ IF result.status = "raised"
                  THEN /\ pc' = "raised"
                       /\ events' = events \o << <<"call", "week">>, <<"raise", "TypeError">> >>
                  ELSE /\ pc' = "persist"
                       /\ events' = events \o << <<"call", "week">>, <<"return", "week">> >>
  /\ UNCHANGED <<arguments, clock, disk, disk0, data, config_dict, courses, course_index>>

\* the callback registered for 'show': show_timetable
ShowTimetable ==
  /\ pc = "callback"
  /\ Callback = "show"
  /\ LET date == DateOf(arguments)
     IN  \E activities \in activities_on(courses, date) :
           out' = [cmd |-> "show", date |-> date, activities |-> activities,
                   timeline |-> IF arguments.timeline
                                THEN print_timeline(date, activities)
                                ELSE [drawn |-> FALSE, height |-> box_height,
                                      mapping |-> <<>>],
                   lines |-> IF arguments.timeline THEN <<>>
                             ELSE [i \in DOMAIN activities |->
                                     print_activity(date, activities[i].title,
                                                    activities[i].act)]]
  /\ pc' = "persist"
  /\ events' = events \o << <<"call", "show">>, <<"return", "show">> >>
  /\ UNCHANGED <<arguments, clock, disk, disk0, data, config_dict, courses, course_index>>

\* the callback registered for 'next': show_next
ShowNext ==
  /\ pc = "callback"
  /\ Callback = "next"
  /\ \E activities \in activities_on(courses, clock) :
       out' = show_next(clock, activities, arguments.time) @@ [cmd |-> "next"]
  /\ pc' = "persist"
  /\ events' = events \o << <<"call", "next">>, <<"return", "next">> >>
  /\ UNCHANGED <<arguments, clock, disk, disk0, data, config_dict, courses, course_index>>

\* Persist with a dirty check: the file is written only when the list changed
PersistIfChanged ==
  /\ pc = "persist"
  /\ IF Some(courses) # disk
     THEN /\ disk' = Some(courses)
          /\ events' = Append(events, <<"write">>)
     ELSE UNCHANGED <<disk, events>>
  /\ pc' = "done"
  /\ UNCHANGED <<arguments, clock, disk0, data, config_dict, courses, course_index, out>>

\* lines 285-286: pickle.dump(courses) into the data file
Persist ==
  /\ pc = "persist"
  /\ disk' = Some(courses)
  /\ events' = Append(events, <<"write">>)
  /\ pc' = "done"
  /\ UNCHANGED <<arguments, clock, disk0, data, config_dict, courses, course_index, out>>

(***************************************************************************)
(* Specifications                                                          *)
(***************************************************************************)
\* the cache files a run can find: none, or the list an earlier run wrote
DiskStates == {None} \cup { Some(cl) : cl \in CourseLists(RemotePool, MaxFetch) }

\* a run of main() from its first line
Init ==
  /\ pc = "validate"
  /\ arguments \in Arguments
  /\ clock \in Datetimes({FirstOrdinal}, MainClockTimes)
  /\ disk \in DiskStates
  /\ disk0 = disk
  /\ data = None
  /\ config_dict = None
  /\ courses = <<>>
  /\ course_index = 1
  /\ events = <<>>
  /\ out = NoOutput

Next ==
  \/ Validate
  \/ GetConfig
  \/ GetCourses
  \/ FetchActivities
  \/ ShowWeek
  \/ ShowTimetable
  \/ ShowNext
  \/ Persist

Spec == Init /\ [][Next]_vars

\* main() runs to its end: no step of it waits for anything
FairSpec == Init /\ [][Next]_vars /\ WF_vars(Next)

\* the docopt dictionaries after validation, for a run that loads the cache
ValidatedArguments ==
  { [a EXCEPT !.on = IF @ = None THEN None ELSE strptime(@[1])] :
      a \in { b \in Arguments :
                /\ b.on # None => strptime(b.on[1]) # None
                /\ ~b.drop_cache
                /\ ~b.verbose } }

\* main() about to dispatch, having loaded a cached course list
InitCallback(args, clocks) ==
  /\ pc = "callback"
  /\ arguments \in args
  /\ clock \in clocks
  /\ arguments.on # None => clock = CHOOSE c \in clocks : TRUE
  /\ courses \in CourseLists(ActivityPool, MaxActs)
  /\ disk = Some(courses)
  /\ disk0 = disk
  /\ data = disk
  /\ config_dict = Some(ParsedConfig)
  /\ course_index = 1
  /\ events = << <<"load">> >>
  /\ out = NoOutput

\* the week view on every cached course list and every date
InitWeek ==
  InitCallback({ a \in ValidatedArguments : a.week }, Datetimes(Ordinals, { <<9, 0, 0>> }))

SpecWeek == InitWeek /\ [][ShowWeek]_vars

\* the day view, as a list and as a timeline
InitShow ==
  InitCallback({ a \in ValidatedArguments : a.show },
               Datetimes({FirstOrdinal, FirstOrdinal + 1, FirstOrdinal + 2}, { <<9, 0, 0>> }))

SpecShow == InitShow /\ [][ShowTimetable]_vars

\* the next view at every clock time
InitNext ==
  InitCallback({ a \in ValidatedArguments : a.next },
               Datetimes({FirstOrdinal, FirstOrdinal + 1}, ClockTimes))

SpecNext == InitNext /\ [][ShowNext]_vars

(***************************************************************************)
(* Properties                                                              *)
(***************************************************************************)
IsFetch(e) == e[1] = "fetch"

IsCall(e) == e[1] = "call"

\* the positions in the run at which the cache file was written
Writes == { i \in DOMAIN events : events[i][1] = "write" }

\* the dispatched view flow has returned
ViewReturned == \E i \in DOMAIN events : events[i][1] = "return"

\* the view flow has been dispatched
Dispatched == \E i \in DOMAIN events : IsCall(events[i])

\* C1: in a run of main() whose startup succeeds and whose view flow returns,
\* the course list is written to the cache file exactly once, after the view
\* flow has completed, whether it was refetched or loaded and whatever the
\* view printed: the file changes only in a write, a write comes right after
\* the view's return, there is never a second one, and once the view has
\* returned the run ends with the one write made and the file holding courses.
C1_WrittenOnceAfterView ==
  /\ [][disk' # disk => events' = Append(events, <<"write">>)]_vars
  /\ [](\A i \in Writes : i > 1 /\ events[i - 1][1] = "return")
  /\ [](Cardinality(Writes) <= 1)
  /\ [](pc = "done" => Cardinality(Writes) = 1 /\ disk = Some(courses))
  /\ (ViewReturned ~> (pc = "done" /\ Cardinality(Writes) = 1))

\* a run that loaded the cache, showed an empty week and still wrote the file
C1_Witness ==
  /\ pc = "done"
  /\ disk0 # None
  /\ ~arguments.drop_cache
  /\ out.cmd = "week"
  /\ out.status = "empty"
  /\ Writes # {}

\* main() refetches when no cached list was loaded or --drop-cache was given
Refetch == disk0 = None \/ arguments.drop_cache

\* C2: main() fetches if and only if no cached course list was loaded or
\* --drop-cache was given; when it fetches, every configured course has been
\* fetched, once and in order, before the view flow starts; when it does not,
\* nothing is fetched and the list loaded from the cache is the list the view
\* flow gets and the list persisted.
C2_FetchIffNoCacheOrDrop ==
  /\ SelectSeq(events, IsFetch) # <<>> => Refetch
  /\ (pc = "callback" \/ Dispatched) /\ Refetch =>
       /\ SelectSeq(events, IsFetch) = [i \in 1 .. Len(Titles) |-> <<"fetch", Titles[i]>>]
       /\ \A i, j \in DOMAIN events : IsFetch(events[i]) /\ IsCall(events[j]) => i < j
  /\ (pc = "callback" \/ Dispatched) /\ ~Refetch =>
       /\ SelectSeq(events, IsFetch) = <<>>
       /\ courses = disk0[1]
       /\ pc = "done" => disk = disk0

\* a run with --drop-cache that replaced a cached list by a refetched one
C2_Witness ==
  /\ pc = "done"
  /\ arguments.drop_cache
  /\ disk0 # None
  /\ disk # disk0
  /\ Len(SelectSeq(events, IsFetch)) = Len(Titles)

\* the run has ended without ever dispatching a view flow
FailedBeforeDispatch == pc \in {"exit", "raised"} /\ ~Dispatched

\* C3: a run that fails before dispatch (bad usage, no configuration, a fetch
\* that fails) has terminated without invoking a view flow and without writing
\* the cache file, which is as it was; a failed fetch is the last thing the
\* run did and no course was fetched twice.
C3_FailureLeavesCache ==
  FailedBeforeDispatch =>
    /\ ~ENABLED Next
    /\ Writes = {}
    /\ disk = disk0
    /\ out = NoOutput
    /\ \A i, j \in DOMAIN events :
         IsFetch(events[i]) /\ IsFetch(events[j]) /\ i # j => events[i] # events[j]
    /\ \A i \in DOMAIN events : events[i] = <<"raise", "fetch failed">> => i = Len(events)

\* the second course's fetch failed after the first one's succeeded, with a
\* cache file on disk
C3_Witness ==
  /\ pc = "raised"
  /\ disk0 # None
  /\ Len(SelectSeq(events, IsFetch)) = 2
  /\ events[Len(events)] = <<"raise", "fetch failed">>

\* C4: show_next selects the activity with the earliest start among those of
\* today's activities that start strictly later than now's time of day, and
\* selects nothing, prints nothing and returns normally when there is none.
C4_NextIsEarliestLater ==
  out.cmd = "next" =>
    LET acts  == out.activities
        later == { i \in DOMAIN acts : TimeLess(time(out.now), acts[i].act.start) }
    IN  /\ pc = "persist"
        /\ later = {} => out.next_activity = None /\ out.printed = "nothing"
        /\ later # {} =>
             /\ out.next_activity # None
             /\ \E i \in later :
                  /\ out.next_activity[1] = acts[i]
                  /\ \A j \in later : ~TimeLess(acts[j].act.start, acts[i].act.start)

\* an activity starts exactly at now and a later one is selected
C4_Witness ==
  /\ out.cmd = "next"
  /\ out.next_activity # None
  /\ \E i \in DOMAIN out.activities : out.activities[i].act.start = time(out.now)

\* the smallest and largest element of a non-empty set of integers
MinOf(S) == CHOOSE x \in S : \A y \in S : x <= y

MaxOf(S) == CHOOSE x \in S : \A y \in S : y <= x

\* C5: for a non-empty week the table has, after the header, exactly one row
\* for each whole hour h with E <= h < L in ascending order, E the hour of the
\* earliest start and L the hour of the latest end, or the hour after it when
\* that end has minutes or seconds.
C5_RowsCoverHourRange ==
  out.cmd = "week" /\ Len(out.day_activities) > 0 =>
    LET da   == out.day_activities
        E    == MinOf({ da[i].act.start[1] : i \in DOMAIN da })
        ends == { Seconds(da[i].act.end) : i \in DOMAIN da }
        L    == IF MaxOf(ends) % 3600 = 0 THEN MaxOf(ends) \div 3600
                ELSE MaxOf(ends) \div 3600 + 1
    IN  /\ out.status = "drawn"
        /\ Len(out.table) = 1 + (L - E)
        /\ \A k \in 1 .. (L - E) : out.table[k + 1][1] = <<E + k - 1, 0>>

\* how many entries of seq are x
Count(seq, x) == Cardinality({ k \in DOMAIN seq : seq[k] = x })

\* C6: in an emitted table the cell at weekday column d and hour row h holds
\* the text of an activity exactly when the activity was collected, is held on
\* d and has start.hour <= h < end.hour; every such activity has its own entry
\* in the cell and any other cell is empty.
C6_CellsHoldSpanningActivities ==
  out.cmd = "week" /\ out.status = "drawn" =>
    LET da == out.day_activities
    IN  \A r \in 2 .. Len(out.table) : \A d \in WeekDays :
          LET h     == out.table[r][1][1]
              cell  == out.table[r][d + 2]
              there == { i \in DOMAIN da :
                           /\ da[i].act.day = d
                           /\ da[i].act.start[1] <= h
                           /\ h < da[i].act.end[1] }
          IN  /\ Len(cell) = Cardinality(there)
              /\ \A i \in there :
                   Count(cell, CellText(da[i])) =
                     Cardinality({ j \in there : CellText(da[j]) = CellText(da[i]) })

\* a table with two activities in one cell and an empty cell in the same row
C6_Witness ==
  /\ out.cmd = "week"
  /\ out.status = "drawn"
  /\ \E r \in 2 .. Len(out.table) :
       /\ \E d \in WeekDays : Len(out.table[r][d + 2]) = 2
       /\ \E d \in WeekDays : out.table[r][d + 2] = <<>>

RECURSIVE TotalBoxes(_, _)
\* the number of boxes in the buckets from index b on
TotalBoxes(mapping, b) ==
  IF b > Len(mapping) THEN 0 ELSE Len(mapping[b].bin) + TotalBoxes(mapping, b + 1)

\* C7: for a non-empty activity list print_timeline puts every activity in
\* exactly one bucket, the one keyed by its HH:MM start; the keys come in the
\* order in which each start time first occurs in the input, the boxes of a
\* bucket keep their input order, and there are as many boxes as activities.
C7_BucketsPartitionInput ==
  out.cmd = "show" /\ arguments.timeline /\ Len(out.activities) > 0 =>
    LET acts     == out.activities
        m        == out.timeline.mapping
        KeyOf(i) == <<acts[i].act.start[1], acts[i].act.start[2]>>
        First(k) == MinOf({ i \in DOMAIN acts : KeyOf(i) = k })
        In(k)    == { i \in DOMAIN acts : KeyOf(i) = k }
    IN  /\ out.timeline.drawn
        /\ { m[b].key : b \in DOMAIN m } = { KeyOf(i) : i \in DOMAIN acts }
        /\ \A b, c \in DOMAIN m :
             b < c => m[b].key # m[c].key /\ First(m[b].key) < First(m[c].key)
        /\ \A b \in DOMAIN m :
             /\ Len(m[b].bin) = Cardinality(In(m[b].key))
             /\ \A q \in DOMAIN m[b].bin :
                  LET i == CHOOSE i \in In(m[b].key) :
                             Cardinality({ j \in In(m[b].key) : j <= i }) = q
                  IN  m[b].bin[q] = activity_text(out.date, acts[i])
        /\ TotalBoxes(m, 1) = Len(acts)

\* two activities that start at the same time share a bucket
C7_Witness ==
  /\ out.cmd = "show"
  /\ arguments.timeline
  /\ Len(out.activities) = 2
  /\ Len(out.timeline.mapping) = 1
  /\ Len(out.timeline.mapping[1].bin) = 2

\* C8: in --time mode the printed delta is the next activity's start time on
\* today's date minus now.
C8_DeltaIsStartMinusNow ==
  out.cmd = "next" /\ out.printed = "delta" =>
    out.delta = Seconds(out.next_activity[1].act.start) - Seconds(time(out.now))

\* C9: for an input date on any weekday, find_day_of_week(date, w) for
\* w = Monday..Friday has weekday w and lies in the Monday-to-Sunday week of
\* the input date; print_week_timetable asks about exactly these five dates,
\* Monday first.
C9_FiveDatesOfTheWeek ==
  out.cmd = "week" =>
    /\ Len(out.dates) = 5
    /\ \A i \in 1 .. 5 :
         /\ (out.dates[i].ordinal - 1) % 7 = i - 1
         /\ (out.dates[i].ordinal - 1) \div 7 = (out.date.ordinal - 1) \div 7
    /\ \A i \in DOMAIN out.day_activities :
         \E k \in 1 .. 5 : out.day_activities[i].act.day = (out.dates[k].ordinal - 1) % 7

\* the week view asked for on a Sunday, with an activity collected
C9_Witness ==
  /\ out.cmd = "week"
  /\ (out.date.ordinal - 1) % 7 = 6
  /\ Len(out.day_activities) > 0

\* C10: every activity collected for the week appears in the emitted table:
\* its text is in at least one row, in the column of its weekday.
C10_EveryActivityVisible ==
  out.cmd = "week" =>
    \A i \in DOMAIN out.day_activities :
      /\ out.status = "drawn"
      /\ \E r \in 2 .. Len(out.table) :
           Count(out.table[r][out.day_activities[i].act.day + 2],
                 CellText(out.day_activities[i])) > 0

====
